---- MODULE Spec2Model ----
(***************************************************************************)
(* Model of the JMeter-on-EKS backend: the HTTP facade (backend/main.py)   *)
(* and the manager it drives (backend/eks_jmeter_manager.py).              *)
(*                                                                         *)
(* Every external-tool invocation (kubectl / eksctl subprocess) is one     *)
(* atomic step whose outcome is chosen by the environment.  Spec runs one  *)
(* caller through every operation, one request after the other.  The       *)
(* handlers are plain "def" endpoints of a FastAPI application, which runs *)
(* such endpoints on a thread pool, and they hold no lock: ConcSpec runs   *)
(* two handler threads over the shared cluster state.                      *)
(***************************************************************************)
EXTENDS Integers, Sequences, FiniteSets, TLC

VARIABLES
    th,           \* per handler thread: position, locals, tool log, response
    masterPod,    \* a pod with label app=jmeter-master exists
    statusFile,   \* /tmp/test_status on the control pod
    triggerFile,  \* /tmp/run_test on the control pod exists
    stale,        \* history: the marker holds a FINISHED/ERROR that was there
                  \* when the latest /test/run request arrived
    elapsed,      \* _wait_for_kube_ready: time.time() - start, in seconds
    probes,       \* _wait_for_kube_ready: kubectl get nodes calls of this wait
    applied,      \* apply_jmeter_manifests: the (template, namespace) pairs submitted
    skipped       \* apply_jmeter_manifests: the templates skipped as missing

vars == <<th, masterPod, statusFile, triggerFile, stale,
          elapsed, probes, applied, skipped>>

envVars == <<masterPod, statusFile, triggerFile, stale>>
seqVars == <<elapsed, probes, applied, skipped>>

----------------------------------------------------------------------------
(* Bounds of the model *)

MaxShards == 2      \* MAX_SHARDS of a /test/run request ranges over 0..MaxShards
MaxProbeDur == 2    \* seconds one "kubectl get nodes" probe may take

\* the handler threads; thread 1 is the only caller of Spec
Threads == {1, 2}

----------------------------------------------------------------------------
(* Text: the output of a command is a sequence of tokens; "\n" and " " are *)
(* the whitespace tokens str.strip() removes.                              *)

IsSpace(c) == c \in {"\n", " "}

RECURSIVE LStrip(_)
LStrip(s) == IF s # <<>> /\ IsSpace(Head(s)) THEN LStrip(Tail(s)) ELSE s

RECURSIVE RStrip(_)
RStrip(s) ==
    IF s # <<>> /\ IsSpace(s[Len(s)]) THEN RStrip(SubSeq(s, 1, Len(s) - 1)) ELSE s

Strip(s) == RStrip(LStrip(s))

\* what "echo WORD" prints
Echo(w) == <<w, "\n">>

NoFile == [exists |-> FALSE, content |-> <<>>]
FileWith(c) == [exists |-> TRUE, content |-> c]

\* sh -c "cat /tmp/test_status 2>/dev/null || echo <dflt>"
CatOr(file, dflt) == IF file.exists THEN file.content ELSE Echo(dflt)

----------------------------------------------------------------------------
(* The tool log of a request.  An invocation repeated with the same        *)
(* outcome directly after itself is recorded once, flagged "again".        *)

Call(tool, arg, ok) == [tool |-> tool, arg |-> arg, ok |-> ok, again |-> FALSE]

Log(calls, c) ==
    IF calls # <<>> /\ [calls[Len(calls)] EXCEPT !.again = FALSE] = c
    THEN [calls EXCEPT ![Len(calls)].again = TRUE]
    ELSE Append(calls, c)

Idle == [pc |-> "idle", op |-> "none", shards |-> 0, i |-> 0, pod |-> FALSE,
         calls |-> <<>>, code |-> 0, status |-> <<>>, accesses |-> 0,
         readStale |-> FALSE, detail |-> "none", args |-> <<>>,
         remote |-> <<>>, path |-> <<>>, listed |-> <<>>]

Set(t, r) == th' = [th EXCEPT ![t] = r]

\* raise HTTPException(code, ...) / return a response: the request is over
Respond(t, r, code) == Set(t, [r EXCEPT !.pc = "done", !.code = code])

----------------------------------------------------------------------------
(* Initial state: the server has started, nothing has been requested.      *)

Init ==
    /\ th = [t \in Threads |-> Idle]
    /\ masterPod \in BOOLEAN
    /\ statusFile = NoFile
    /\ triggerFile = FALSE
    /\ stale = FALSE
    /\ elapsed = 0
    /\ probes = 0
    /\ applied = <<>>
    /\ skipped = {}

----------------------------------------------------------------------------
(* KubeHelper: what one kubectl invocation yields.                         *)

\* KubeHelper.get_pod_name: the name, or None when kubectl fails or prints
\* nothing ("out or None"); toolOk is the environment's part of the outcome
get_pod_name(toolOk) == masterPod /\ toolOk

\* KubeHelper.exec_in_pod: the command runs in the pod only when kubectl
\* reaches a live control pod; otherwise rc # 0 and stdout is empty
exec_in_pod(reach) == masterPod /\ reach

StatusValues == {<<"RUNNING">>, <<"FINISHED">>, <<"ERROR">>, <<"UNKNOWN">>}
FinalValues == {<<"FINISHED">>, <<"ERROR">>}

HoldsFinal(file) == file.exists /\ Strip(file.content) \in FinalValues

----------------------------------------------------------------------------
(* POST /test/run: api_run = _reset_status, then manager.run_test(shards). *)

\* api_run without the _reset_status call of line 139
api_run_noreset(t) ==
    /\ th[t].pc = "idle"
    /\ \E valid \in BOOLEAN, n \in 0..MaxShards :
         IF valid
         THEN /\ Set(t, [Idle EXCEPT !.pc = "rt_delete", !.op = "run", !.shards = n])
              /\ stale' = HoldsFinal(statusFile)
         ELSE /\ Respond(t, [Idle EXCEPT !.op = "run", !.detail = "bad_shards"], 500)
              /\ UNCHANGED stale
    /\ UNCHANGED <<masterPod, statusFile, triggerFile, seqVars>>

\* api_run, line 137: int(data.get("MAX_SHARDS", 1)) is evaluated before the
\* try block; a value int() rejects ends the request with the framework's 500
api_run(t) ==
    /\ th[t].pc = "idle"
    /\ \E valid \in BOOLEAN, n \in 0..MaxShards :
         IF valid
         THEN /\ Set(t, [Idle EXCEPT !.pc = "reset_getpod", !.op = "run", !.shards = n])
              /\ stale' = HoldsFinal(statusFile)
         ELSE /\ Respond(t, [Idle EXCEPT !.op = "run", !.detail = "bad_shards"], 500)
              /\ UNCHANGED stale
    /\ UNCHANGED <<masterPod, statusFile, triggerFile, seqVars>>

\* _reset_status, line 130-131
reset_status_getpod(t) ==
    /\ th[t].pc = "reset_getpod"
    /\ \E toolOk \in BOOLEAN :
         LET pod == get_pod_name(toolOk)
             r == [th[t] EXCEPT !.calls = Log(@, Call("get_pod_name", 0, pod))]
         IN  Set(t, [r EXCEPT !.pc = IF pod THEN "reset_rm" ELSE "rt_delete"])
    /\ UNCHANGED <<envVars, seqVars>>

\* _reset_status, line 132: rm -f /tmp/test_status; the result is dropped
reset_status_rm(t) ==
    /\ th[t].pc = "reset_rm"
    /\ \E reach \in BOOLEAN :
         LET ran == exec_in_pod(reach)
             r == [th[t] EXCEPT !.calls = Log(@, Call("exec_reset", 0, ran)),
                                !.accesses = @ + (IF ran THEN 1 ELSE 0)]
         IN  /\ Set(t, [r EXCEPT !.pc = "rt_delete"])
             /\ statusFile' = IF ran THEN NoFile ELSE statusFile
             /\ stale' = IF ran THEN FALSE ELSE stale
    /\ UNCHANGED <<masterPod, triggerFile, seqVars>>

\* run_test, line 255: subprocess.call, the exit code is dropped
rt_delete_slaves(t) ==
    /\ th[t].pc = "rt_delete"
    /\ \E ok \in BOOLEAN :
         Set(t, [th[t] EXCEPT !.calls = Log(@, Call("delete_slaves", 0, ok)),
                             !.pc = "rt_scale"])
    /\ UNCHANGED <<envVars, seqVars>>

\* wait_for_slaves with range(replicas - 1): the last worker is not awaited
WaitDone_short(i, n) == i >= n - 1

\* wait_for_slaves: range(replicas) is exhausted
WaitDone(i, n) == i >= n

\* scale_slaves with subprocess.call in place of check_call: the exit code
\* is dropped
rt_scale_slaves_call(t) ==
    /\ th[t].pc = "rt_scale"
    /\ \E ok \in BOOLEAN :
         LET r == [th[t] EXCEPT !.calls = Log(@, Call("scale", th[t].shards, ok)),
                                !.i = 0]
         IN  Set(t, [r EXCEPT !.pc = IF WaitDone(0, r.shards)
                                     THEN "rt_getpod" ELSE "rt_wait"])
    /\ UNCHANGED <<masterPod, statusFile, triggerFile, stale, seqVars>>

\* scale_slaves, line 217: check_call raises on a non-zero exit
rt_scale_slaves(t) ==
    /\ th[t].pc = "rt_scale"
    /\ \E ok \in BOOLEAN :
         LET r == [th[t] EXCEPT !.calls = Log(@, Call("scale", th[t].shards, ok)),
                                !.i = 0]
         IN  IF ok
             THEN Set(t, [r EXCEPT !.pc = IF WaitDone(0, r.shards)
                                          THEN "rt_getpod" ELSE "rt_wait"])
             ELSE Respond(t, [r EXCEPT !.detail = "scale"], 500)
    /\ UNCHANGED <<masterPod, statusFile, triggerFile, stale, seqVars>>

\* wait_for_slaves, line 230-244: kubectl wait pod/jmeter-slaves-i
rt_wait_for_slaves(t) ==
    /\ th[t].pc = "rt_wait"
    /\ \E ok \in BOOLEAN :
         LET r == [th[t] EXCEPT !.calls = Log(@, Call("wait", th[t].i, ok))]
         IN  IF ok
             THEN Set(t, [r EXCEPT !.i = @ + 1,
                                   !.pc = IF WaitDone(r.i + 1, r.shards)
                                          THEN "rt_getpod" ELSE "rt_wait"])
             ELSE Respond(t, [r EXCEPT !.detail = "wait"], 500)
    /\ UNCHANGED <<envVars, seqVars>>

\* run_test, line 270-272
rt_getpod(t) ==
    /\ th[t].pc = "rt_getpod"
    /\ \E toolOk \in BOOLEAN :
         LET pod == get_pod_name(toolOk)
             r == [th[t] EXCEPT !.calls = Log(@, Call("get_pod_name", 1, pod)),
                                !.pod = pod]
         IN  IF pod
             THEN Set(t, [r EXCEPT !.pc = "rt_ls"])
             ELSE Respond(t, [r EXCEPT !.detail = "no_master"], 500)
    /\ UNCHANGED <<envVars, seqVars>>

\* run_test, line 278-288: the test-plan listing; rc is dropped and an empty
\* listing only selects the fallback log line
rt_list_testplans(t) ==
    /\ th[t].pc = "rt_ls"
    /\ \E reach \in BOOLEAN :
         Set(t, [th[t] EXCEPT !.calls = Log(@, Call("exec_ls", 0, exec_in_pod(reach))),
                             !.pc = "rt_trigger"])
    /\ UNCHANGED <<envVars, seqVars>>

\* The outcomes of
\*   echo RUNNING > /tmp/test_status && rm -f /tmp/run_test && touch /tmp/run_test
\* "noexec": kubectl exec did not run it; "echo", "rm", "touch": that command
\* of the && chain failed; "ok": exit code 0
TriggerOutcomes == {"noexec", "echo", "rm", "touch", "ok"}

\* run_test with the commands of trigger_cmd joined by ";" in place of "&&":
\* each runs whatever the one before it did, and the exit code is touch's
rt_trigger_semicolon(t) ==
    /\ th[t].pc = "rt_trigger"
    /\ \E o \in TriggerOutcomes :
         /\ o # "noexec" => masterPod
         /\ LET wrote == o \in {"rm", "touch", "ok"}
                rc0 == o \in {"echo", "rm", "ok"}
                r == [th[t] EXCEPT !.calls = Log(@, Call("exec_trigger", 0, rc0)),
                                   !.accesses = @ + (IF o = "noexec" THEN 0 ELSE 1)]
            IN  /\ statusFile' = IF wrote THEN FileWith(Echo("RUNNING")) ELSE statusFile
                /\ stale' = IF wrote THEN FALSE ELSE stale
                /\ triggerFile' = CASE rc0 -> TRUE
                                    [] o = "touch" -> FALSE
                                    [] OTHER -> triggerFile
                /\ IF rc0
                   THEN Respond(t, [r EXCEPT !.detail = o], 200)
                   ELSE Respond(t, [r EXCEPT !.detail = o], 500)
    /\ UNCHANGED <<masterPod, seqVars>>

\* run_test, line 290-304; on a failure detail names what stderr reports
rt_trigger(t) ==
    /\ th[t].pc = "rt_trigger"
    /\ \E o \in TriggerOutcomes :
         /\ o # "noexec" => masterPod
         /\ LET wrote == o \in {"rm", "touch", "ok"}
                r == [th[t] EXCEPT !.calls = Log(@, Call("exec_trigger", 0, o = "ok")),
                                   !.accesses = @ + (IF o = "noexec" THEN 0 ELSE 1)]
            IN  /\ statusFile' = IF wrote THEN FileWith(Echo("RUNNING")) ELSE statusFile
                /\ stale' = IF wrote THEN FALSE ELSE stale
                /\ triggerFile' = CASE o = "ok" -> TRUE
                                    [] o = "touch" -> FALSE
                                    [] OTHER -> triggerFile
                /\ IF o = "ok"
                   THEN Respond(t, r, 200)
                   ELSE Respond(t, [r EXCEPT !.detail = o], 500)
    /\ UNCHANGED <<masterPod, seqVars>>

----------------------------------------------------------------------------
(* GET /test/status (api_status) and EKSJMeterManager.get_status.          *)

api_status(t) ==
    /\ th[t].pc = "idle"
    /\ Set(t, [Idle EXCEPT !.pc = "st_getpod", !.op = "status"])
    /\ UNCHANGED <<envVars, seqVars>>

\* api_status, line 156-158
st_getpod(t) ==
    /\ th[t].pc = "st_getpod"
    /\ \E toolOk \in BOOLEAN :
         LET pod == get_pod_name(toolOk)
             r == [th[t] EXCEPT !.calls = Log(@, Call("get_pod_name", 0, pod)),
                                !.pod = pod]
         IN  IF pod
             THEN Set(t, [r EXCEPT !.pc = "st_cat"])
             ELSE Respond(t, [r EXCEPT !.detail = "no_master"], 500)
    /\ UNCHANGED <<envVars, seqVars>>

\* the status a read of the marker yields: stdout of the exec, stripped
ReadStatus(ran, dflt) == Strip(IF ran THEN CatOr(statusFile, dflt) ELSE <<>>)

\* api_status with "test -e FILE && cat FILE || echo RUNNING": the command
\* goes to the marker twice
st_cat_checked(t) ==
    /\ th[t].pc = "st_cat"
    /\ \E reach \in BOOLEAN :
         LET ran == exec_in_pod(reach)
             status == ReadStatus(ran, "RUNNING")
             r == [th[t] EXCEPT !.calls = Log(@, Call("exec_cat", 0, ran)),
                                !.accesses = @ + (IF ran THEN 2 ELSE 0),
                                !.status = status,
                                !.readStale = ran /\ stale /\ status \in FinalValues]
         IN  Respond(t, r, 200)
    /\ UNCHANGED <<envVars, seqVars>>

\* api_status, line 160-169
st_cat(t) ==
    /\ th[t].pc = "st_cat"
    /\ \E reach \in BOOLEAN :
         LET ran == exec_in_pod(reach)
             status == ReadStatus(ran, "RUNNING")
             r == [th[t] EXCEPT !.calls = Log(@, Call("exec_cat", 0, ran)),
                                !.accesses = @ + (IF ran THEN 1 ELSE 0),
                                !.status = status,
                                !.readStale = ran /\ stale /\ status \in FinalValues]
         IN  Respond(t, r, 200)
    /\ UNCHANGED <<envVars, seqVars>>

get_status(t) ==
    /\ th[t].pc = "idle"
    /\ Set(t, [Idle EXCEPT !.pc = "gs_getpod", !.op = "get_status"])
    /\ UNCHANGED <<envVars, seqVars>>

\* get_status, line 310-312
gs_getpod(t) ==
    /\ th[t].pc = "gs_getpod"
    /\ \E toolOk \in BOOLEAN :
         LET pod == get_pod_name(toolOk)
             r == [th[t] EXCEPT !.calls = Log(@, Call("get_pod_name", 0, pod)),
                                !.pod = pod]
         IN  IF pod
             THEN Set(t, [r EXCEPT !.pc = "gs_cat"])
             ELSE Set(t, [r EXCEPT !.pc = "done", !.status = <<"UNKNOWN">>])
    /\ UNCHANGED <<envVars, seqVars>>

\* get_status, line 314-319
gs_cat(t) ==
    /\ th[t].pc = "gs_cat"
    /\ \E reach \in BOOLEAN :
         LET ran == exec_in_pod(reach)
             r == [th[t] EXCEPT !.calls = Log(@, Call("exec_cat", 0, ran)),
                                !.accesses = @ + (IF ran THEN 1 ELSE 0),
                                !.status = ReadStatus(ran, "UNKNOWN")]
         IN  Set(t, [r EXCEPT !.pc = "done"])
    /\ UNCHANGED <<envVars, seqVars>>

\* the response has been sent; the thread takes the next request
Return(t) ==
    /\ th[t].pc = "done"
    /\ Set(t, Idle)
    /\ elapsed' = 0
    /\ probes' = 0
    /\ applied' = <<>>
    /\ skipped' = {}
    /\ UNCHANGED envVars

----------------------------------------------------------------------------
(* The cluster around the program.                                         *)

\* the in-pod entrypoint picks up /tmp/run_test, runs the plan and leaves
\* FINISHED or ERROR in the marker
EntrypointFinish ==
    /\ masterPod /\ triggerFile
    /\ \E v \in {"FINISHED", "ERROR"} : statusFile' = FileWith(Echo(v))
    /\ triggerFile' = FALSE
    /\ stale' = FALSE
    /\ UNCHANGED <<th, masterPod, seqVars>>

\* the control pod goes away, and its /tmp with it
PodDeleted ==
    /\ masterPod
    /\ masterPod' = FALSE
    /\ statusFile' = NoFile
    /\ triggerFile' = FALSE
    /\ stale' = FALSE
    /\ UNCHANGED <<th, seqVars>>

PodCreated ==
    /\ ~masterPod
    /\ masterPod' = TRUE
    /\ UNCHANGED <<th, statusFile, triggerFile, stale, seqVars>>

Cluster == EntrypointFinish \/ PodDeleted \/ PodCreated

----------------------------------------------------------------------------
(* POST /eks/create: api_eks_create = create_cluster, then                 *)
(* apply_jmeter_manifests.                                                 *)

Timeout == 300      \* _wait_for_kube_ready(timeout=300)
SleepSec == 5       \* time.sleep(5) between two probes

\* the values a field of the request body may hold; "None" is a missing key
Regions == {"None", "", "us-east-1"}
NodeTypes == {"None", "", "t3.large"}

\* Python truth of "not value" for these values
Falsy(v) == v \in {"None", ""}

\* api_eks_create, line 88-92: the check precedes the try block
api_eks_create(t) ==
    /\ th[t].pc = "idle"
    /\ \E region \in Regions, node_type \in NodeTypes :
         LET r == [Idle EXCEPT !.op = "create", !.args = <<region, node_type>>]
         IN  IF Falsy(region) \/ Falsy(node_type)
             THEN Respond(t, [r EXCEPT !.detail = "required"], 400)
             ELSE Set(t, [r EXCEPT !.pc = "cr_eksctl"])
    /\ UNCHANGED <<envVars, seqVars>>

\* create_cluster, line 153-170: eksctl create cluster (check_call), then
\* line 127: start = time.time()
create_cluster(t) ==
    /\ th[t].pc = "cr_eksctl"
    /\ \E ok \in BOOLEAN :
         LET r == [th[t] EXCEPT !.calls = Log(@, Call("eksctl_create", 0, ok))]
         IN  IF ok
             THEN Set(t, [r EXCEPT !.pc = "cr_wait"])
             ELSE Respond(t, [r EXCEPT !.detail = "eksctl"], 500)
    /\ elapsed' = 0
    /\ probes' = 0
    /\ UNCHANGED <<envVars, applied, skipped>>

\* the deadline test taken one sleep early
TimedOut_early(e, timeout) == e + SleepSec > timeout

\* _wait_for_kube_ready, line 138: time.time() - start > timeout
TimedOut(e, timeout) == e > timeout

\* _wait_for_kube_ready, line 128-140: one turn of the loop.  The probe takes
\* d seconds; a failed probe is followed by the deadline test and the sleep.
wait_for_kube_ready(t) ==
    /\ th[t].pc = "cr_wait"
    /\ \E d \in 0..MaxProbeDur, ok \in BOOLEAN :
         LET now == elapsed + d
             r == [th[t] EXCEPT !.calls = Log(@, Call("get_nodes", 0, ok))]
         IN  /\ probes' = IF ok THEN 0 ELSE probes + 1
             /\ IF ok
                THEN /\ Set(t, [r EXCEPT !.pc = "cr_ns_get", !.i = 1])
                     /\ elapsed' = 0
                ELSE IF TimedOut(now, Timeout)
                THEN /\ Respond(t, [r EXCEPT !.detail = "timeout"], 500)
                     /\ elapsed' = now
                ELSE /\ Set(t, r)
                     /\ elapsed' = now + SleepSec
    /\ UNCHANGED <<envVars, applied, skipped>>

\* create_cluster, line 173-174: jmeter_namespace, then monitoring_namespace
Namespaces == <<"jmeter", "monitoring">>

\* create_cluster without line 174: only the first namespace is ensured
AfterNamespace_first(r) == [r EXCEPT !.pc = "cr_ctx"]

\* the step after ensure_namespace(Namespaces[i]) returned
AfterNamespace(r) ==
    IF r.i < Len(Namespaces)
    THEN [r EXCEPT !.pc = "cr_ns_get", !.i = @ + 1]
    ELSE [r EXCEPT !.pc = "cr_ctx"]

\* ensure_namespace, line 45-51: kubectl get ns
ensure_namespace_get(t) ==
    /\ th[t].pc = "cr_ns_get"
    /\ \E ok \in BOOLEAN :
         LET r == [th[t] EXCEPT !.calls = Log(@, Call("get_ns", th[t].i, ok))]
         IN  Set(t, IF ok THEN AfterNamespace(r) ELSE [r EXCEPT !.pc = "cr_ns_create"])
    /\ UNCHANGED <<envVars, seqVars>>

\* ensure_namespace, line 52-54: kubectl create ns (check_call, not caught)
ensure_namespace_create(t) ==
    /\ th[t].pc = "cr_ns_create"
    /\ \E ok \in BOOLEAN :
         LET r == [th[t] EXCEPT !.calls = Log(@, Call("create_ns", th[t].i, ok))]
         IN  IF ok
             THEN Set(t, AfterNamespace(r))
             ELSE Respond(t, [r EXCEPT !.detail = "create_ns"], 500)
    /\ UNCHANGED <<envVars, seqVars>>

\* api_eks_create, line 97-106: the context; int() of a field may raise
eks_create_context(t) ==
    /\ th[t].pc = "cr_ctx"
    /\ \E valid \in BOOLEAN :
         IF valid
         THEN Set(t, [th[t] EXCEPT !.pc = "cr_apply", !.i = 1])
         ELSE Respond(t, [th[t] EXCEPT !.detail = "ctx"], 500)
    /\ applied' = <<>>
    /\ skipped' = {}
    /\ UNCHANGED <<envVars, elapsed, probes>>

\* apply_jmeter_manifests, line 183-193.  A name is its sequence of parts:
\* the prefix up to the first hyphen where there is one, the rest of the
\* stem, and the extensions.
files == <<
    <<"storageclass-and-pvcs", ".yaml">>,
    <<"jmeter-", "configmap", ".yaml", ".j2">>,
    <<"jmeter-", "master-deployment", ".yaml", ".j2">>,
    <<"jmeter-", "master-service", ".yaml", ".j2">>,
    <<"jmeter-", "slaves-statefulset", ".yaml", ".j2">>,
    <<"jmeter-", "slaves-service", ".yaml", ".j2">>,
    <<"jmeter-", "slaves-hpa", ".yaml", ".j2">>,
    <<"monitor-", "influx", ".yaml", ".j2">>,
    <<"monitor-", "grafana", ".yaml", ".j2">> >>

StartsWith(s, pre) == Len(s) >= Len(pre) /\ SubSeq(s, 1, Len(pre)) = pre
EndsWith(s, suf) == Len(s) >= Len(suf) /\ SubSeq(s, Len(s) - Len(suf) + 1, Len(s)) = suf

\* Path(name).name / os.path.basename: what follows the last "/"
RECURSIVE BaseName(_)
BaseName(s) ==
    IF \E k \in 1..Len(s) : s[k] = "/"
    THEN BaseName(Tail(s))
    ELSE s

\* _is_cluster_scoped_template, line 117: the suffixes, in the order tried
Suffixes == << <<".yaml", ".j2">>, <<".yml", ".j2">>, <<".yaml">>, <<".yml">> >>

\* _is_cluster_scoped_template, line 117-120: strip the first suffix that matches
RECURSIVE StripSuffix(_, _)
StripSuffix(base, k) ==
    IF k > Len(Suffixes) THEN base
    ELSE IF EndsWith(base, Suffixes[k])
         THEN SubSeq(base, 1, Len(base) - Len(Suffixes[k]))
         ELSE StripSuffix(base, k + 1)

\* _is_cluster_scoped_template comparing the name with its suffix on
is_cluster_scoped_nostrip(name) ==
    BaseName(name) \in {<<"storageclass">>, <<"storageclass-and-pvcs">>}

\* _is_cluster_scoped_template, line 115-121
is_cluster_scoped_template(name) ==
    StripSuffix(BaseName(name), 1) \in {<<"storageclass">>, <<"storageclass-and-pvcs">>}

\* apply_jmeter_manifests, line 203-208: ns; "None" is Python's None
TemplateNamespace(f) ==
    IF is_cluster_scoped_template(f) THEN "None"
    ELSE IF StartsWith(f, <<"monitor-">>) THEN Namespaces[2]
    ELSE Namespaces[1]

\* apply_manifest, line 22-25: "-n namespace" is passed only for a truthy one
apply_manifest(namespace) == IF Falsy(namespace) THEN "no -n" ELSE namespace

\* apply_jmeter_manifests, line 195-210: one turn of the loop over files
apply_jmeter_manifests(t) ==
    /\ th[t].pc = "cr_apply"
    /\ \E o \in {"missing", "render", "fail", "ok"} :
         LET k == th[t].i
             next == IF k < Len(files)
                     THEN [th[t] EXCEPT !.i = k + 1]
                     ELSE [th[t] EXCEPT !.pc = "done", !.code = 200]
             sub == [file |-> k, target |-> apply_manifest(TemplateNamespace(files[k])),
                     ok |-> o = "ok"]
             logged(r) == [r EXCEPT !.calls = Log(@, Call("apply", 0, o = "ok"))]
         IN  CASE o = "missing" ->
                    /\ Set(t, next)
                    /\ skipped' = skipped \cup {k}
                    /\ UNCHANGED applied
               [] o = "render" ->
                    /\ Respond(t, [th[t] EXCEPT !.detail = "render"], 500)
                    /\ UNCHANGED <<applied, skipped>>
               [] o = "fail" ->
                    /\ Respond(t, logged([th[t] EXCEPT !.detail = "apply"]), 500)
                    /\ applied' = Append(applied, sub)
                    /\ UNCHANGED skipped
               [] o = "ok" ->
                    /\ Set(t, logged(next))
                    /\ applied' = Append(applied, sub)
                    /\ UNCHANGED skipped
    /\ UNCHANGED <<envVars, elapsed, probes>>

----------------------------------------------------------------------------
(* POST /eks/delete: api_delete = delete_cluster.                          *)

api_delete(t) ==
    /\ th[t].pc = "idle"
    /\ Set(t, [Idle EXCEPT !.pc = "del_eksctl", !.op = "delete"])
    /\ UNCHANGED <<envVars, seqVars>>

\* delete_cluster that issues eksctl delete again after a failure
delete_cluster_retry(t) ==
    /\ th[t].pc = "del_eksctl"
    /\ \E ok \in BOOLEAN :
         LET r == [th[t] EXCEPT !.calls = Log(@, Call("eksctl_delete", 0, ok))]
         IN  IF ok THEN Respond(t, r, 200) ELSE Set(t, r)
    /\ UNCHANGED <<envVars, seqVars>>

\* delete_cluster, line 361-370
delete_cluster(t) ==
    /\ th[t].pc = "del_eksctl"
    /\ \E ok \in BOOLEAN :
         LET r == [th[t] EXCEPT !.calls = Log(@, Call("eksctl_delete", 0, ok))]
         IN  IF ok
             THEN Respond(t, r, 200)
             ELSE Respond(t, [r EXCEPT !.detail = "EKS deletion failed"], 500)
    /\ UNCHANGED <<envVars, seqVars>>

----------------------------------------------------------------------------
(* GET /test/results: api_results = fetch_results("./results/results.jtl"). *)

\* the .jtl files a directory of the control pod may hold, as ls sorts them
Listings == {<<>>, <<"a.jtl">>, <<"a.jtl", "b.jtl">>}

\* the listing cut with "tail -n 1" in place of "head -n 1"
ListFirst_last(dir, listing) ==
    IF listing = <<>> THEN <<>> ELSE <<"/", dir, "/", listing[Len(listing)], "\n">>

\* sh -c "ls -1 <dir>/*.jtl 2>/dev/null | head -n 1"
ListFirst(dir, listing) ==
    IF listing = <<>> THEN <<>> ELSE <<"/", dir, "/", listing[1], "\n">>

dest == <<".", "/", "results", "/", "results.jtl">>

\* os.path.dirname: what precedes the last "/"
RECURSIVE DirName(_)
DirName(s) ==
    IF s = <<>> THEN <<>>
    ELSE IF s[Len(s)] = "/" THEN SubSeq(s, 1, Len(s) - 1)
    ELSE DirName(SubSeq(s, 1, Len(s) - 1))

\* fetch_results, line 329: os.path.dirname(dest) or "."
local_dir == IF DirName(dest) = <<>> THEN <<".">> ELSE DirName(dest)

\* fetch_results, line 351-352: os.path.join(local_dir, os.path.basename(remote))
local_path(remote) == local_dir \o <<"/">> \o BaseName(remote)

api_results(t) ==
    /\ th[t].pc = "idle"
    /\ Set(t, [Idle EXCEPT !.pc = "fr_getpod", !.op = "results"])
    /\ UNCHANGED <<envVars, seqVars>>

\* fetch_results, line 325-327
fr_getpod(t) ==
    /\ th[t].pc = "fr_getpod"
    /\ \E toolOk \in BOOLEAN :
         LET pod == get_pod_name(toolOk)
             r == [th[t] EXCEPT !.calls = Log(@, Call("get_pod_name", 0, pod)),
                                !.pod = pod]
         IN  IF pod
             THEN Set(t, [r EXCEPT !.pc = "fr_ls_results"])
             ELSE Respond(t, [r EXCEPT !.detail = "no_master"], 500)
    /\ UNCHANGED <<envVars, seqVars>>

\* fetch_results, line 332-337
fr_ls_results(t) ==
    /\ th[t].pc = "fr_ls_results"
    /\ \E reach \in BOOLEAN, listing \in Listings :
         LET ran == exec_in_pod(reach)
             remote == Strip(IF ran THEN ListFirst("results", listing) ELSE <<>>)
             r == [th[t] EXCEPT !.calls = Log(@, Call("exec_ls_results", 0, ran)),
                                !.listed = Append(@, IF ran THEN listing ELSE <<>>),
                                !.remote = remote]
         IN  Set(t, [r EXCEPT !.pc = IF remote = <<>> THEN "fr_ls_testplans" ELSE "fr_cp"])
    /\ UNCHANGED <<envVars, seqVars>>

\* fetch_results, line 339-349
fr_ls_testplans(t) ==
    /\ th[t].pc = "fr_ls_testplans"
    /\ \E reach \in BOOLEAN, listing \in Listings :
         LET ran == exec_in_pod(reach)
             remote == Strip(IF ran THEN ListFirst("testplans", listing) ELSE <<>>)
             r == [th[t] EXCEPT !.calls = Log(@, Call("exec_ls_testplans", 0, ran)),
                                !.listed = Append(@, IF ran THEN listing ELSE <<>>),
                                !.remote = remote]
         IN  IF remote = <<>>
             THEN Respond(t, [r EXCEPT !.detail = "no_jtl"], 500)
             ELSE Set(t, [r EXCEPT !.pc = "fr_cp"])
    /\ UNCHANGED <<envVars, seqVars>>

\* fetch_results, line 351-356 and copy_from_pod, line 82-85
fr_copy(t) ==
    /\ th[t].pc = "fr_cp"
    /\ \E ok \in BOOLEAN :
         LET r == [th[t] EXCEPT !.calls = Log(@, Call("cp", 0, ok)),
                                !.path = local_path(th[t].remote)]
         IN  IF ok
             THEN Respond(t, r, 200)
             ELSE Respond(t, [r EXCEPT !.detail = "cp"], 500)
    /\ UNCHANGED <<envVars, seqVars>>

----------------------------------------------------------------------------
(* The specifications.                                                     *)

RunStep(t) ==
    \/ api_run(t) \/ reset_status_getpod(t) \/ reset_status_rm(t)
    \/ rt_delete_slaves(t) \/ rt_scale_slaves(t) \/ rt_wait_for_slaves(t)
    \/ rt_getpod(t) \/ rt_list_testplans(t) \/ rt_trigger(t)

StatusStep(t) == api_status(t) \/ st_getpod(t) \/ st_cat(t)

GetStatusStep(t) == get_status(t) \/ gs_getpod(t) \/ gs_cat(t)

CreateStep(t) ==
    \/ api_eks_create(t) \/ create_cluster(t) \/ wait_for_kube_ready(t)
    \/ ensure_namespace_get(t) \/ ensure_namespace_create(t)
    \/ eks_create_context(t) \/ apply_jmeter_manifests(t)

DeleteStep(t) == api_delete(t) \/ delete_cluster(t)

ResultsStep(t) ==
    \/ api_results(t) \/ fr_getpod(t) \/ fr_ls_results(t)
    \/ fr_ls_testplans(t) \/ fr_copy(t)

\* one caller, one operation after the other
Next ==
    \/ RunStep(1) \/ StatusStep(1) \/ GetStatusStep(1)
    \/ CreateStep(1) \/ DeleteStep(1) \/ ResultsStep(1)
    \/ Return(1)
    \/ Cluster

Spec == Init /\ [][Next]_vars

\* time advances and every probe returns: the loop of _wait_for_kube_ready
\* keeps taking its turns
FairSpec == Spec /\ WF_vars(wait_for_kube_ready(1))

\* two handler threads serving /test/run and /test/status
ConcNext ==
    \/ \E t \in Threads : RunStep(t) \/ StatusStep(t) \/ Return(t)
    \/ Cluster

ConcSpec == Init /\ [][ConcNext]_vars

----------------------------------------------------------------------------
(* Properties.                                                             *)

Done(t) == th[t].pc = "done"

\* the positions of the failed invocations in a tool log
Failed(calls) == {k \in 1..Len(calls) : ~calls[k].ok}

ToolsOf(calls) == {calls[k].tool : k \in 1..Len(calls)}

\* C1: every status read, by get_status or by GET /test/status, yields one
\* of the strings RUNNING, FINISHED, ERROR, UNKNOWN.
C1_StatusIsOneOfFour ==
    \A t \in Threads :
        Done(t) /\ (th[t].op = "get_status" \/ (th[t].op = "status" /\ th[t].code = 200))
            => th[t].status \in StatusValues

\* C2 as claimed: the status file is accessed at most once while one request
\* is handled.
C2_AtMostOncePerRequest == \A t \in Threads : th[t].accesses <= 1

\* C2: the status file is accessed at most once per status read, and at most
\* twice per POST /test/run: the removal by _reset_status, then the write of
\* the trigger command; no other request accesses it.
C2_AccessesPerRequest ==
    \A t \in Threads :
        LET r == th[t] IN
        /\ r.op \in {"status", "get_status"} => r.accesses <= 1
        /\ r.op = "run" =>
             /\ r.accesses <= 2
             /\ r.accesses <= Cardinality({k \in 1..Len(r.calls) :
                    r.calls[k].tool \in {"exec_reset", "exec_trigger"}})
             /\ r.accesses = 2 => Call("exec_reset", 0, TRUE) \in
                    {r.calls[k] : k \in 1..Len(r.calls)}
        /\ r.op \notin {"status", "get_status", "run"} => r.accesses = 0

C2_Witness ==
    Done(1) /\ th[1].op = "run" /\ th[1].code = 200 /\ th[1].accesses = 2

\* the invocations whose failure the code turns into an empty or default
\* value (None, "", the fallback plan, the other directory) or answers itself
\* (create the namespace, probe again)
Defaulted == {"get_pod_name", "exec_cat", "exec_ls", "exec_ls_results",
              "exec_ls_testplans", "get_ns", "get_nodes"}

\* the invocations whose result run_test and _reset_status drop
Dropped == {"exec_reset", "delete_slaves"}

ManagerOps == {"create", "run", "results", "delete"}

\* the invocations of _reset_status, which precede run_test in POST /test/run
OfReset(c) == c.tool = "exec_reset" \/ (c.tool = "get_pod_name" /\ c.arg = 0)

C5_WaitTerminates ==
    /\ [](\A t \in Threads : th[t].detail = "timeout" => elapsed > Timeout)
    /\ [](\A t \in Threads : th[t].pc = "cr_wait" =>
             /\ elapsed <= Timeout + SleepSec
             /\ probes <= Timeout \div SleepSec + 1)
    /\ [][\A t \in Threads : th[t].pc = "cr_wait" /\ <<th, elapsed>>' # <<th, elapsed>> =>
             /\ th'[t].pc = "cr_wait" =>
                  /\ probes' = probes + 1
                  /\ elapsed' - elapsed \in SleepSec..(SleepSec + MaxProbeDur)
             /\ th'[t].pc = "cr_ns_get" =>
                  th'[t].calls[Len(th'[t].calls)] = Call("get_nodes", 0, TRUE)
             /\ th'[t].pc \in {"cr_wait", "cr_ns_get", "done"}]_vars
    /\ \A t \in Threads : (th[t].pc = "cr_wait") ~> (th[t].pc # "cr_wait")

C5_Witness ==
    /\ Done(1) /\ th[1].detail = "timeout" /\ th[1].code = 500
    /\ elapsed > Timeout /\ probes = Timeout \div SleepSec + 1

\* C6: in run_test the trigger command is issued only after scale to
\* max_shards succeeded and after kubectl wait succeeded for the workers
\* 0 .. max_shards-1 in that order, and after the control pod was found; once
\* the scale, a wait or the lookup failed no trigger is issued and the
\* request ends with an error.
C6_TriggerAfterWorkersReady ==
    \A t \in Threads :
        LET r == th[t]
            c == r.calls
        IN
        r.op = "run" =>
            /\ \A k \in 1..Len(c) : c[k].tool = "exec_trigger" =>
                 \E j \in 1..k :
                    /\ c[j] = Call("scale", r.shards, TRUE)
                    /\ \A i \in 0..(r.shards - 1) : c[j + 1 + i] = Call("wait", i, TRUE)
                    /\ c[j + 1 + r.shards] = Call("get_pod_name", 1, TRUE)
                    /\ j + 1 + r.shards < k
            /\ \A k \in Failed(c) :
                 c[k].tool \in {"scale", "wait"}
                     \/ (c[k].tool = "get_pod_name" /\ c[k].arg = 1) =>
                         /\ "exec_trigger" \notin ToolsOf(c)
                         /\ Done(t) /\ r.code = 500

C6_Witness ==
    /\ Done(1) /\ th[1].op = "run" /\ th[1].code = 200 /\ th[1].shards = 2
    /\ triggerFile

\* a request that has issued a tool invocation and is not over
Mid(t) == th[t].pc \notin {"idle", "done"} /\ th[t].calls # <<>>

\* C7 as claimed: the invocations of two requests never interleave: no
\* request issues a step while another request is between two of its steps.
C7_RequestsNotInterleaved ==
    \A t1, t2 \in Threads : t1 # t2 => ~(Mid(t1) /\ Mid(t2))

\* the place of an invocation in the program text of api_run / api_status
RunRank(c) ==
    CASE c.tool = "get_pod_name" /\ c.arg = 0 -> 1
      [] c.tool = "exec_reset" -> 2
      [] c.tool = "delete_slaves" -> 3
      [] c.tool = "scale" -> 4
      [] c.tool = "wait" -> 5 + c.arg
      [] c.tool = "get_pod_name" /\ c.arg = 1 -> 6 + MaxShards
      [] c.tool = "exec_ls" -> 7 + MaxShards
      [] c.tool = "exec_trigger" -> 8 + MaxShards
      [] c.tool = "exec_cat" -> 2
      [] OTHER -> 0

\* C7: within one request the invocations are issued in program order, the
\* lookup of _reset_status first, none of them twice; requests themselves are
\* not serialized (their steps may interleave with those of another request).
C7_ProgramOrderWithinRequest ==
    \A t \in Threads :
        LET c == th[t].calls IN
        th[t].op \in {"run", "status"} =>
            /\ \A k \in 1..Len(c) : RunRank(c[k]) > 0 /\ ~c[k].again
            /\ \A k \in 1..(Len(c) - 1) : RunRank(c[k]) < RunRank(c[k + 1])
            /\ c # <<>> => RunRank(c[1]) = 1
            /\ th[t].pc \notin {"idle", "done", "reset_getpod", "st_getpod"} => c # <<>>

C7_Witness ==
    /\ Done(1) /\ th[1].op = "run" /\ th[1].code = 200
    /\ Mid(2) /\ th[2].op = "run" /\ th[2].pc = "rt_trigger"

\* the place of an invocation among the steps of POST /eks/create
CreateRank(c) ==
    CASE c.tool = "eksctl_create" -> 1
      [] c.tool = "get_nodes" -> 2
      [] c.tool = "get_ns" -> 1 + 2 * c.arg
      [] c.tool = "create_ns" -> 2 + 2 * c.arg
      [] c.tool = "apply" -> 7
      [] OTHER -> 0

\* ensure_namespace(Namespaces[i]) has returned normally
Ensured(c, i) ==
    \E k \in 1..Len(c) : c[k] = Call("get_ns", i, TRUE) \/ c[k] = Call("create_ns", i, TRUE)

\* C8: POST /eks/create answers 400 without any invocation exactly when
\* AWS_REGION or NODE_INSTANCE_TYPE is missing or empty; otherwise the steps
\* run in the order eksctl create, readiness wait, jmeter namespace,
\* monitoring namespace, manifests, each only after all the earlier ones
\* succeeded; a failed step ends the request with 500; 200 is answered
\* only after every step succeeded.
C8_CreateStepsInOrder ==
    \A t \in Threads :
        LET r == th[t]
            c == r.calls
            all == {c[k] : k \in 1..Len(c)}
        IN
        r.op = "create" =>
            /\ (Falsy(r.args[1]) \/ Falsy(r.args[2])) <=> r.code = 400
            /\ r.code = 400 => Done(t) /\ c = <<>> /\ applied = <<>>
            /\ \A k \in 1..Len(c) : CreateRank(c[k]) > 0
            /\ \A k \in 1..(Len(c) - 1) :
                 \/ CreateRank(c[k]) < CreateRank(c[k + 1])
                 \/ (c[k].tool = "get_nodes" /\ ~c[k].ok
                        /\ c[k + 1] = Call("get_nodes", 0, TRUE))
                 \/ (c[k].tool = "apply" /\ c[k].ok
                        /\ c[k + 1] = Call("apply", 0, FALSE))
            /\ \A k \in 1..Len(c) :
                 /\ CreateRank(c[k]) >= 2 => Call("eksctl_create", 0, TRUE) \in all
                 /\ CreateRank(c[k]) >= 3 => Call("get_nodes", 0, TRUE) \in all
                 /\ CreateRank(c[k]) >= 5 => Ensured(c, 1)
                 /\ CreateRank(c[k]) >= 7 => Ensured(c, 2)
                 /\ c[k].tool = "create_ns" =>
                      k > 1 /\ c[k - 1] = Call("get_ns", c[k].arg, FALSE)
            /\ applied # <<>> => "apply" \in ToolsOf(c)
            /\ \A k \in Failed(c) :
                 c[k].tool \in {"eksctl_create", "create_ns", "apply"} =>
                     k = Len(c) /\ Done(t) /\ r.code = 500
            /\ r.detail \in {"timeout", "ctx", "render"} => Done(t) /\ r.code = 500
            /\ Done(t) => r.code \in {200, 400, 500}
            /\ r.code = 200 =>
                 /\ Done(t)
                 /\ Call("eksctl_create", 0, TRUE) \in all
                 /\ Call("get_nodes", 0, TRUE) \in all
                 /\ Ensured(c, 1) /\ Ensured(c, 2)
                 /\ \A k \in Failed(c) : c[k].tool \in {"get_nodes", "get_ns"}
                 /\ \A j \in 1..Len(applied) : applied[j].ok
                 /\ r.i = Len(files)

C8_Witness ==
    /\ Done(1) /\ th[1].op = "create" /\ th[1].code = 200
    /\ "create_ns" \in ToolsOf(th[1].calls)
    /\ applied # <<>>

\* C9: after a POST /test/run was taken up, no GET /test/status returns a
\* FINISHED or ERROR that was in the marker before that request, unless the
\* marker has been rewritten since.
C9_NoStaleStatusAfterRun == \A t \in Threads : ~th[t].readStale

\* the target C10 states for each template of the list, by position
StatedTarget(k) ==
    IF k = 1 THEN "no -n" ELSE IF k \in {8, 9} THEN "monitoring" ELSE "jmeter"

AppliedFiles == {applied[j].file : j \in 1..Len(applied)}

\* C10: apply_jmeter_manifests submits the templates in list order, skips
\* the missing ones, submits each to one target (none for
\* storageclass-and-pvcs, monitoring for monitor-*, jmeter for the rest),
\* and stops at the first failed apply.
C10_ManifestsInOrderToTarget ==
    \A t \in {1} :
        LET r == th[t] IN
        /\ \A j \in 1..Len(applied) :
             /\ applied[j].target = StatedTarget(applied[j].file)
             /\ j < Len(applied) => applied[j].file < applied[j + 1].file
             /\ ~applied[j].ok => j = Len(applied) /\ Done(t) /\ r.code = 500
        /\ AppliedFiles \cap skipped = {}
        /\ r.pc = "cr_apply" => AppliedFiles \cup skipped = 1..(r.i - 1)
        /\ r.op = "create" /\ r.code = 200 =>
             AppliedFiles \cup skipped = 1..Len(files)
        /\ r.op # "create" => applied = <<>> /\ skipped = {}

C10_Witness ==
    /\ Done(1) /\ th[1].op = "create" /\ th[1].code = 200
    /\ skipped # {}
    /\ {"no -n", "monitoring", "jmeter"} \subseteq {applied[j].target : j \in 1..Len(applied)}

\* the remote file C11 states for the listings a fetch has seen: the first
\* .jtl of /results, else the first .jtl of /testplans, else none
StatedRemote(listed) ==
    IF Len(listed) >= 1 /\ listed[1] # <<>>
    THEN <<"/", "results", "/", listed[1][1]>>
    ELSE IF Len(listed) >= 2 /\ listed[2] # <<>>
    THEN <<"/", "testplans", "/", listed[2][1]>>
    ELSE <<>>

\* C11: fetch_results issues kubectl cp only for a .jtl it found, the first
\* one listed under /results, else the first one listed under /testplans
\* (listed only when /results gave none); the path it returns is the
\* directory of dest, ./results, joined with the base name of that file;
\* with no control pod, or with no .jtl in either listing, no copy is issued
\* and GET /test/results answers 500.
C11_CopyOnlyFoundJtl ==
    \A t \in Threads :
        LET r == th[t]
            c == r.calls
        IN
        r.op = "results" =>
            /\ Len(r.listed) <= 2
            /\ Len(r.listed) = 2 => r.listed[1] = <<>>
            /\ r.pc = "fr_cp" \/ "cp" \in ToolsOf(c) =>
                 /\ r.remote # <<>>
                 /\ r.remote = StatedRemote(r.listed)
                 /\ Call("get_pod_name", 0, TRUE) \in {c[k] : k \in 1..Len(c)}
            /\ Done(t) /\ r.code = 200 =>
                 /\ c[Len(c)] = Call("cp", 0, TRUE)
                 /\ r.path = <<".", "/", "results", "/",
                               r.remote[Len(r.remote)]>>
            /\ Call("get_pod_name", 0, FALSE) \in {c[k] : k \in 1..Len(c)} =>
                 Done(t) /\ r.code = 500 /\ Len(c) = 1 /\ r.listed = <<>>
            /\ Len(r.listed) = 2 /\ r.listed[2] = <<>> =>
                 Done(t) /\ r.code = 500 /\ "cp" \notin ToolsOf(c)
            /\ Call("cp", 0, FALSE) \in {c[k] : k \in 1..Len(c)} =>
                 Done(t) /\ r.code = 500

C11_Witness ==
    /\ Done(1) /\ th[1].op = "results" /\ th[1].code = 200
    /\ th[1].listed = <<<<>>, <<"a.jtl", "b.jtl">>>>
    /\ th[1].path = <<".", "/", "results", "/", "a.jtl">>

HoldsRunning(file) == file.exists /\ Strip(file.content) = <<"RUNNING">>

\* C12: a GET /test/status that answers RUNNING read a marker that exists
\* and holds RUNNING, and get_status, run in the state it was read in,
\* returns RUNNING too.
C12_RunningOnlyFromMarker ==
    [][\A t \in Threads :
         /\ th[t].pc = "st_cat" /\ th'[t].pc = "done"
         /\ th'[t].status = <<"RUNNING">>
         => /\ HoldsRunning(statusFile)
            /\ ReadStatus(TRUE, "UNKNOWN") = <<"RUNNING">>]_vars

\* C13: the exec of the trigger command creates /tmp/run_test only together
\* with a marker set to RUNNING by the same exec; when the status write did
\* not happen (the exec never ran, or echo failed) neither file changes; and
\* POST /test/run answers success only after that exec exited with 0, a
\* non-zero exit ending it with HTTP 500.
C13_TriggerAfterStatusWrite ==
    /\ [](\A t \in Threads :
            LET r == th[t]
                c == r.calls
            IN
            r.op = "run" =>
                /\ Done(t) /\ r.code = 200 =>
                     c # <<>> /\ c[Len(c)] = Call("exec_trigger", 0, TRUE)
                /\ \A k \in 1..Len(c) : c[k].tool = "exec_trigger" =>
                     /\ k = Len(c) /\ Done(t)
                     /\ r.code = IF c[k].ok THEN 200 ELSE 500)
    /\ [][\A t \in Threads :
            th[t].pc = "rt_trigger" /\ th'[t].pc = "done" =>
                /\ th'[t].code = 200 =>
                     triggerFile' /\ statusFile' = FileWith(Echo("RUNNING"))
                /\ ~triggerFile /\ triggerFile' =>
                     statusFile' = FileWith(Echo("RUNNING")) /\ th'[t].code = 200
                /\ th'[t].detail \in {"noexec", "echo"} =>
                     /\ triggerFile' = triggerFile /\ statusFile' = statusFile
                     /\ th'[t].code = 500
                /\ th'[t].code = 500 => (triggerFile' => triggerFile)]_vars

C13_Witness ==
    /\ Done(1) /\ th[1].op = "run" /\ th[1].code = 200
    /\ th[1].calls[Len(th[1].calls)] = Call("exec_trigger", 0, TRUE)
    /\ triggerFile /\ HoldsRunning(statusFile)

====
